---- MODULE Spec2Model ----
(***************************************************************************)
(* The bus-daemon facade of dbus-python (dbus/bus.py, _BusDaemonMixin):    *)
(* nine wrappers around the org.freedesktop.DBus object.  The model keeps  *)
(* the caller's position, the outbound message stream, the table of        *)
(* pending calls and the inbound reply stream, so that what a wrapper      *)
(* validates, what it sends and what it hands back can be checked.         *)
(***************************************************************************)
EXTENDS Integers, Sequences, FiniteSets, TLC

\* ------------------------------------------------------------- bounds
MaxSent == 2
MaxPending == 2

\* ---------------------------------------------------------- constants
BUS_DAEMON_NAME == "org.freedesktop.DBus"
BUS_DAEMON_PATH == "/org/freedesktop/DBus"
BUS_DAEMON_IFACE == "org.freedesktop.DBus"

NAME_FLAG_ALLOW_REPLACEMENT == 1
NAME_FLAG_REPLACE_EXISTING == 2
NAME_FLAG_DO_NOT_QUEUE == 4

REQUEST_NAME_REPLY_PRIMARY_OWNER == 1
REQUEST_NAME_REPLY_IN_QUEUE == 2
REQUEST_NAME_REPLY_EXISTS == 3
REQUEST_NAME_REPLY_ALREADY_OWNER == 4

RELEASE_NAME_REPLY_RELEASED == 1
RELEASE_NAME_REPLY_NON_EXISTENT == 2
RELEASE_NAME_REPLY_NOT_OWNER == 3

START_REPLY_SUCCESS == 1
START_REPLY_ALREADY_RUNNING == 2

None == "None"

\* ------------------------------------------------------------- inputs
\* A bus name is a sequence of characters; ":" anywhere but in front is
\* an invalid character, "1" stands for the digits, "a" for the letters.
Chars == {":", ".", "a", "1"}
Digits == {"1"}
Letters == {"a"}
WellKnownNames == {<<"a", ".", "a">>, <<"a", ".", "a", "1">>}
UniqueNames == {<<":", "1", ".", "1">>, <<":", "a", ".", "a">>}
MalformedNames ==
    {<<>>, <<":">>, <<"a">>, <<".", "a">>, <<"a", ".">>, <<"a", ".", ".", "a">>,
     <<"1", ".", "a">>, <<"a", ".", "1">>, <<"a", ".", ":">>, <<":", ".", "a">>}
BusNames == WellKnownNames \cup UniqueNames \cup MalformedNames
Rules == {"type='signal'", "bogus"}
\* Bitwise-ORs of the flags: none, each of two alone, two combined.
Flags == {0, NAME_FLAG_ALLOW_REPLACEMENT, NAME_FLAG_DO_NOT_QUEUE,
          NAME_FLAG_REPLACE_EXISTING + NAME_FLAG_DO_NOT_QUEUE}
ErrorNames == {"org.freedesktop.DBus.Error.Failed", "org.freedesktop.DBus.Error.NoReply"}

HasFlag(flags, f) == (flags \div f) % 2 = 1

\* --------------------------------------------------------- validation
RECURSIVE ScanBusName(_, _, _, _, _)
ScanBusName(name, i, unique, last, dot) ==
    IF i > Len(name) THEN last # "." /\ dot
    ELSE LET c == name[i] IN
         IF c = "." THEN
              IF last = "." \/ last = "" THEN FALSE
              ELSE ScanBusName(name, i + 1, unique, c, TRUE)
         ELSE IF c \in Digits THEN
              IF ~unique /\ (last = "." \/ last = "") THEN FALSE
              ELSE ScanBusName(name, i + 1, unique, c, dot)
         ELSE IF c \notin Letters THEN FALSE
         ELSE ScanBusName(name, i + 1, unique, c, dot)

IsUniqueForm(name) == Len(name) > 0 /\ name[1] = ":"

\* TRUE when the validator returns normally, FALSE when it raises ValueError.
validate_bus_name(name, allow_unique) ==
    IF Len(name) = 0 THEN FALSE
    ELSE IF IsUniqueForm(name) /\ ~allow_unique THEN FALSE
    ELSE ScanBusName(name, IF IsUniqueForm(name) THEN 2 ELSE 1,
                     IsUniqueForm(name), "", FALSE)

\* dbus.UInt32(v) keeps v when 0 <= v < 2^32 and raises otherwise; every
\* member of Flags is in that range, so only the first branch is taken.
UInt32(v) == IF v >= 0 THEN v ELSE "OverflowError"

bool(v) == v # 0

\* -------------------------------------------------------------- state
VARIABLES pc, call, result, outbox, pending, replies, nsent

vars == <<pc, call, result, outbox, pending, replies, nsent>>

NoCall == [op |-> "none", arg |-> <<>>, flags |-> 0]
NoResult == [kind |-> "none", value |-> None]

Init ==
    /\ pc = "idle"
    /\ call = NoCall
    /\ result = NoResult
    /\ outbox = <<>>
    /\ pending = {}
    /\ replies = <<>>
    /\ nsent = 0

\* ---------------------------------------------- the proxy collaborator
Message(serial, bus_name, object_path, member, args, dbus_interface) ==
    [serial |-> serial, destination |-> bus_name, path |-> object_path,
     interface |-> dbus_interface, member |-> member, args |-> args]

PendingCall(serial, op, reply_handler, error_handler) ==
    [serial |-> serial, op |-> op,
     reply_handler |-> reply_handler, error_handler |-> error_handler]

Frame(op, arg, flags) == [op |-> op, arg |-> arg, flags |-> flags]

\* Proxy method call without handlers: the message is queued and the caller
\* is suspended until the reply with this serial arrives.
BlockingCall(op, arg, flags, bus_name, object_path, member, args, dbus_interface) ==
    /\ nsent < MaxSent
    /\ Cardinality(pending) < MaxPending
    /\ call' = Frame(op, arg, flags)
    /\ outbox' = Append(outbox, Message(nsent + 1, bus_name, object_path,
                                        member, args, dbus_interface))
    /\ pending' = pending \cup {PendingCall(nsent + 1, op, "return", "raise")}
    /\ nsent' = nsent + 1
    /\ pc' = "blocked"
    /\ result' = NoResult
    /\ UNCHANGED replies

\* Proxy method call with reply_handler/error_handler: the message is
\* queued, the handlers are registered, the call returns None at once.
AsyncCall(op, arg, flags, bus_name, object_path, member, args, dbus_interface, reply_handler, error_handler) ==
    /\ nsent < MaxSent
    /\ Cardinality(pending) < MaxPending
    /\ call' = Frame(op, arg, flags)
    /\ outbox' = Append(outbox, Message(nsent + 1, bus_name, object_path,
                                        member, args, dbus_interface))
    /\ pending' = pending \cup {PendingCall(nsent + 1, op, reply_handler, error_handler)}
    /\ nsent' = nsent + 1
    /\ pc' = "idle"
    /\ result' = [kind |-> "return", value |-> None]
    /\ UNCHANGED replies

\* validate_bus_name raised: the wrapper is left before any proxy call.
RaiseValueError(op, arg, flags) ==
    /\ call' = Frame(op, arg, flags)
    /\ result' = [kind |-> "raise", value |-> "ValueError"]
    /\ pc' = "idle"
    /\ UNCHANGED <<outbox, pending, replies, nsent>>

\* ------------------------------------------------------------- facade
\* Variant: the handler turns an error reply into an exception.
_noop_Raising(res, reply) ==
    IF reply.kind = "error" THEN [kind |-> "raise", value |-> reply.value] ELSE res

_noop(res, reply) == res

\* Variant: the arguments of get_object are swapped.
get_unix_user_SwappedAddress(bus_name) ==
    /\ pc = "idle"
    /\ IF validate_bus_name(bus_name, TRUE)
       THEN BlockingCall("get_unix_user", bus_name, 0,
                         BUS_DAEMON_PATH, BUS_DAEMON_NAME,
                         "GetConnectionUnixUser", <<bus_name>>, BUS_DAEMON_IFACE)
       ELSE RaiseValueError("get_unix_user", bus_name, 0)

get_unix_user(bus_name) ==
    /\ pc = "idle"
    /\ IF validate_bus_name(bus_name, TRUE)
       THEN BlockingCall("get_unix_user", bus_name, 0,
                         BUS_DAEMON_NAME, BUS_DAEMON_PATH,
                         "GetConnectionUnixUser", <<bus_name>>, BUS_DAEMON_IFACE)
       ELSE RaiseValueError("get_unix_user", bus_name, 0)

get_unix_user_return(ret) == [kind |-> "return", value |-> ret]

start_service_by_name(bus_name, flags) ==
    /\ pc = "idle"
    /\ IF validate_bus_name(bus_name, TRUE)
       THEN BlockingCall("start_service_by_name", bus_name, flags,
                         BUS_DAEMON_NAME, BUS_DAEMON_PATH,
                         "StartServiceByName", <<bus_name, UInt32(flags)>>,
                         BUS_DAEMON_IFACE)
       ELSE RaiseValueError("start_service_by_name", bus_name, flags)

\* Variant: the first element tells a fresh start from a running service.
start_service_by_name_return_SuccessFlag(ret) ==
    [kind |-> "return", value |-> <<ret = START_REPLY_SUCCESS, ret>>]

start_service_by_name_return(ret) == [kind |-> "return", value |-> <<TRUE, ret>>]

\* Variant: allow_unique=False is left out of the validation.
request_name_AllowUnique(name, flags) ==
    /\ pc = "idle"
    /\ IF validate_bus_name(name, TRUE)
       THEN BlockingCall("request_name", name, flags,
                         BUS_DAEMON_NAME, BUS_DAEMON_PATH,
                         "RequestName", <<name, UInt32(flags)>>, BUS_DAEMON_IFACE)
       ELSE RaiseValueError("request_name", name, flags)

request_name(name, flags) ==
    /\ pc = "idle"
    /\ IF validate_bus_name(name, FALSE)
       THEN BlockingCall("request_name", name, flags,
                         BUS_DAEMON_NAME, BUS_DAEMON_PATH,
                         "RequestName", <<name, UInt32(flags)>>, BUS_DAEMON_IFACE)
       ELSE RaiseValueError("request_name", name, flags)

\* Variant: IN_QUEUE and EXISTS are signalled by exception.
request_name_return_ExistsRaises(ret) ==
    IF ret \in {REQUEST_NAME_REPLY_IN_QUEUE, REQUEST_NAME_REPLY_EXISTS}
    THEN [kind |-> "raise", value |-> "NameExistsException"]
    ELSE [kind |-> "return", value |-> ret]

request_name_return(ret) == [kind |-> "return", value |-> ret]

\* Variant: allow_unique=False is left out of the validation.
release_name_AllowUnique(name) ==
    /\ pc = "idle"
    /\ IF validate_bus_name(name, TRUE)
       THEN BlockingCall("release_name", name, 0,
                         BUS_DAEMON_NAME, BUS_DAEMON_PATH,
                         "ReleaseName", <<name>>, BUS_DAEMON_IFACE)
       ELSE RaiseValueError("release_name", name, 0)

release_name(name) ==
    /\ pc = "idle"
    /\ IF validate_bus_name(name, FALSE)
       THEN BlockingCall("release_name", name, 0,
                         BUS_DAEMON_NAME, BUS_DAEMON_PATH,
                         "ReleaseName", <<name>>, BUS_DAEMON_IFACE)
       ELSE RaiseValueError("release_name", name, 0)

release_name_return(ret) == [kind |-> "return", value |-> ret]

name_has_owner(bus_name) ==
    /\ pc = "idle"
    /\ BlockingCall("name_has_owner", bus_name, 0,
                    BUS_DAEMON_NAME, BUS_DAEMON_PATH,
                    "NameHasOwner", <<bus_name>>, BUS_DAEMON_IFACE)

name_has_owner_return(ret) == [kind |-> "return", value |-> bool(ret)]

\* Variant: the blocking form is called with the no-op handlers.
add_match_string_IgnoringErrors(rule) ==
    /\ pc = "idle"
    /\ AsyncCall("add_match_string", rule, 0,
                 BUS_DAEMON_NAME, BUS_DAEMON_PATH,
                 "AddMatch", <<rule>>, BUS_DAEMON_IFACE, "_noop", "_noop")

add_match_string(rule) ==
    /\ pc = "idle"
    /\ BlockingCall("add_match_string", rule, 0,
                    BUS_DAEMON_NAME, BUS_DAEMON_PATH,
                    "AddMatch", <<rule>>, BUS_DAEMON_IFACE)

add_match_string_return(ret) == [kind |-> "return", value |-> None]

\* Variant: a rule whose AddMatch is still on its way is not sent again.
add_match_string_non_blocking_Dedup(rule) ==
    /\ pc = "idle"
    /\ IF \E i \in 1..Len(outbox) :
             outbox[i].member = "AddMatch" /\ outbox[i].args = <<rule>>
       THEN /\ call' = Frame("add_match_string_non_blocking", rule, 0)
            /\ result' = [kind |-> "return", value |-> None]
            /\ UNCHANGED <<pc, outbox, pending, replies, nsent>>
       ELSE AsyncCall("add_match_string_non_blocking", rule, 0,
                      BUS_DAEMON_NAME, BUS_DAEMON_PATH,
                      "AddMatch", <<rule>>, BUS_DAEMON_IFACE, "_noop", "_noop")

add_match_string_non_blocking(rule) ==
    /\ pc = "idle"
    /\ AsyncCall("add_match_string_non_blocking", rule, 0,
                 BUS_DAEMON_NAME, BUS_DAEMON_PATH,
                 "AddMatch", <<rule>>, BUS_DAEMON_IFACE, "_noop", "_noop")

remove_match_string(rule) ==
    /\ pc = "idle"
    /\ BlockingCall("remove_match_string", rule, 0,
                    BUS_DAEMON_NAME, BUS_DAEMON_PATH,
                    "RemoveMatch", <<rule>>, BUS_DAEMON_IFACE)

remove_match_string_return(ret) == [kind |-> "return", value |-> None]

\* Variant: the request is sent a second time.
remove_match_string_non_blocking_Twice(rule) ==
    /\ pc = "idle"
    /\ nsent + 1 < MaxSent
    /\ Cardinality(pending) + 1 < MaxPending
    /\ call' = Frame("remove_match_string_non_blocking", rule, 0)
    /\ outbox' = outbox \o
          <<Message(nsent + 1, BUS_DAEMON_NAME, BUS_DAEMON_PATH,
                    "RemoveMatch", <<rule>>, BUS_DAEMON_IFACE),
            Message(nsent + 2, BUS_DAEMON_NAME, BUS_DAEMON_PATH,
                    "RemoveMatch", <<rule>>, BUS_DAEMON_IFACE)>>
    /\ pending' = pending \cup
          {PendingCall(nsent + 1, "remove_match_string_non_blocking", "_noop", "_noop"),
           PendingCall(nsent + 2, "remove_match_string_non_blocking", "_noop", "_noop")}
    /\ nsent' = nsent + 2
    /\ pc' = "idle"
    /\ result' = [kind |-> "return", value |-> None]
    /\ UNCHANGED replies

remove_match_string_non_blocking(rule) ==
    /\ pc = "idle"
    /\ AsyncCall("remove_match_string_non_blocking", rule, 0,
                 BUS_DAEMON_NAME, BUS_DAEMON_PATH,
                 "RemoveMatch", <<rule>>, BUS_DAEMON_IFACE, "_noop", "_noop")

\* What the suspended wrapper hands to its caller when the proxy call
\* comes back with ret.
Return(op, ret) ==
    CASE op = "get_unix_user" -> get_unix_user_return(ret)
      [] op = "start_service_by_name" -> start_service_by_name_return(ret)
      [] op = "request_name" -> request_name_return(ret)
      [] op = "release_name" -> release_name_return(ret)
      [] op = "name_has_owner" -> name_has_owner_return(ret)
      [] op = "add_match_string" -> add_match_string_return(ret)
      [] op = "remove_match_string" -> remove_match_string_return(ret)

\* ------------------------------------------------- daemon and transport
Uids == {0, 1000}

MethodReturns(member) ==
    CASE member = "GetConnectionUnixUser" -> Uids
      [] member = "StartServiceByName" ->
            {START_REPLY_SUCCESS, START_REPLY_ALREADY_RUNNING}
      [] member = "RequestName" ->
            {REQUEST_NAME_REPLY_PRIMARY_OWNER, REQUEST_NAME_REPLY_IN_QUEUE,
             REQUEST_NAME_REPLY_EXISTS, REQUEST_NAME_REPLY_ALREADY_OWNER}
      [] member = "ReleaseName" ->
            {RELEASE_NAME_REPLY_RELEASED, RELEASE_NAME_REPLY_NON_EXISTENT,
             RELEASE_NAME_REPLY_NOT_OWNER}
      [] member = "NameHasOwner" -> {0, 1}
      [] member = "AddMatch" -> {None}
      [] member = "RemoveMatch" -> {None}

Reply(reply_serial, kind, value) ==
    [reply_serial |-> reply_serial, kind |-> kind, value |-> value]

\* The daemon (or the transport, on its behalf) answers the oldest queued
\* message with a method return or with an error.
DaemonReturn ==
    /\ outbox # <<>>
    /\ \E v \in MethodReturns(Head(outbox).member) :
          replies' = Append(replies, Reply(Head(outbox).serial, "method_return", v))
    /\ outbox' = Tail(outbox)
    /\ UNCHANGED <<pc, call, result, pending, nsent>>

DaemonError ==
    /\ outbox # <<>>
    /\ \E e \in ErrorNames :
          replies' = Append(replies, Reply(Head(outbox).serial, "error", e))
    /\ outbox' = Tail(outbox)
    /\ UNCHANGED <<pc, call, result, pending, nsent>>

PendingFor(serial) == CHOOSE p \in pending : p.serial = serial

\* The oldest reply resolves the blocking call that waits for its serial.
DeliverBlocking ==
    /\ replies # <<>>
    /\ LET r == Head(replies)
           p == PendingFor(r.reply_serial)
       IN /\ p.reply_handler = "return"
          /\ pc = "blocked"
          /\ result' = IF r.kind = "method_return"
                        THEN Return(p.op, r.value)
                        ELSE [kind |-> "raise", value |-> r.value]
          /\ pc' = "idle"
          /\ pending' = pending \ {p}
    /\ replies' = Tail(replies)
    /\ UNCHANGED <<call, outbox, nsent>>

\* The oldest reply belongs to a call made with handlers: the reply or the
\* error handler runs, in whatever position the caller is.
DeliverAsync ==
    /\ replies # <<>>
    /\ LET r == Head(replies)
           p == PendingFor(r.reply_serial)
           h == IF r.kind = "method_return" THEN p.reply_handler
                ELSE p.error_handler
       IN /\ h = "_noop"
          /\ result' = _noop(result, r)
          /\ pending' = pending \ {p}
    /\ replies' = Tail(replies)
    /\ UNCHANGED <<pc, call, outbox, nsent>>

Next ==
    \/ \E n \in BusNames : get_unix_user(n)
    \/ \E n \in BusNames, f \in Flags : start_service_by_name(n, f)
    \/ \E n \in BusNames, f \in Flags : request_name(n, f)
    \/ \E n \in BusNames : release_name(n)
    \/ \E n \in BusNames : name_has_owner(n)
    \/ \E r \in Rules : add_match_string(r)
    \/ \E r \in Rules : add_match_string_non_blocking(r)
    \/ \E r \in Rules : remove_match_string(r)
    \/ \E r \in Rules : remove_match_string_non_blocking(r)
    \/ DaemonReturn
    \/ DaemonError
    \/ DeliverBlocking
    \/ DeliverAsync

Spec == Init /\ [][Next]_vars

\* ------------------------------------------------- vocabulary of claims
NameOps == {"get_unix_user", "start_service_by_name", "request_name",
            "release_name", "name_has_owner"}
BlockingOps == NameOps \cup {"add_match_string", "remove_match_string"}
NonBlockingOps == {"add_match_string_non_blocking",
                   "remove_match_string_non_blocking"}
MatchOps == {"add_match_string", "remove_match_string"} \cup NonBlockingOps

ValueError == [kind |-> "raise", value |-> "ValueError"]
ReturnNone == [kind |-> "return", value |-> None]

\* A step in which the caller enters wrapper op.
Invoked(op) ==
    /\ pc = "idle"
    /\ call'.op = op
    /\ <<pc, call, result, nsent>>' # <<pc, call, result, nsent>>

\* A step in which the suspended wrapper op gets its reply and returns.
Resumed(op) == pc = "blocked" /\ pc' = "idle" /\ call.op = op

\* A step in which the oldest reply is taken off the inbound stream.
Delivered == replies # <<>> /\ replies' = Tail(replies)

MemberOf(op) ==
    IF op \in {"add_match_string", "add_match_string_non_blocking"}
    THEN "AddMatch" ELSE "RemoveMatch"

\* The validation wrapper c.op performs on its argument.
PassesValidation(c) ==
    CASE c.op \in {"get_unix_user", "start_service_by_name"} ->
            validate_bus_name(c.arg, TRUE)
      [] c.op \in {"request_name", "release_name"} ->
            validate_bus_name(c.arg, FALSE)
      [] OTHER -> TRUE

\* ---------------------------------------------------------------- C1
\* C1: request_name on a unique-form name (":..."), whatever the flags,
\* ends in ValueError, and no RequestName message carrying a unique-form
\* name is ever on its way to the daemon.
C1_RequestNameRejectsUnique ==
    /\ (call.op = "request_name" /\ IsUniqueForm(call.arg)) =>
          (pc = "idle" /\ result = ValueError)
    /\ \A i \in 1..Len(outbox) :
          outbox[i].member = "RequestName" => ~IsUniqueForm(outbox[i].args[1])

C1_Witness ==
    /\ call.op = "request_name"
    /\ call.arg = <<":", "1", ".", "1">>
    /\ call.flags = NAME_FLAG_DO_NOT_QUEUE + NAME_FLAG_REPLACE_EXISTING
    /\ result = ValueError
    /\ nsent > 0

\* ---------------------------------------------------------------- C2
\* C2: when the suspended request_name gets its reply, a method return
\* carrying any of the four reply codes (EXISTS included) comes back to the
\* caller unchanged as a return value, and the call raises exactly when
\* the reply is an error.
C2_RequestNameReturnsCode ==
    [][Resumed("request_name") =>
         LET r == Head(replies) IN
         /\ r.kind = "method_return" =>
               /\ r.value \in {REQUEST_NAME_REPLY_PRIMARY_OWNER,
                                REQUEST_NAME_REPLY_IN_QUEUE,
                                REQUEST_NAME_REPLY_EXISTS,
                                REQUEST_NAME_REPLY_ALREADY_OWNER}
               /\ result' = [kind |-> "return", value |-> r.value]
         /\ r.kind = "error" <=> result'.kind = "raise"]_vars

C2_Witness ==
    /\ pc = "idle"
    /\ call.op = "request_name"
    /\ call.arg \in WellKnownNames
    /\ HasFlag(call.flags, NAME_FLAG_DO_NOT_QUEUE)
    /\ result = [kind |-> "return", value |-> REQUEST_NAME_REPLY_EXISTS]

C4_BusNameValidatedBeforeSend ==
    /\ (call.op \in NameOps /\ ~validate_bus_name(call.arg, TRUE)) =>
          (pc = "idle" /\ result = ValueError)
    /\ \A i \in 1..Len(outbox) :
          outbox[i].member \in {"GetConnectionUnixUser", "StartServiceByName",
                                "RequestName", "ReleaseName", "NameHasOwner"}
             => validate_bus_name(outbox[i].args[1], TRUE)

C6_StartServiceReturnsPair ==
    [][Resumed("start_service_by_name") =>
         LET r == Head(replies) IN
         IF r.kind = "method_return"
         THEN /\ r.value \in {START_REPLY_SUCCESS, START_REPLY_ALREADY_RUNNING}
              /\ result' = [kind |-> "return", value |-> <<TRUE, r.value>>]
         ELSE result' = [kind |-> "raise", value |-> r.value]]_vars

C6_Witness ==
    /\ pc = "idle"
    /\ call.op = "start_service_by_name"
    /\ result = [kind |-> "return", value |-> <<TRUE, START_REPLY_ALREADY_RUNNING>>]

\* ---------------------------------------------------------------- C7
\* C7: release_name on a unique-form name raises ValueError and sends
\* nothing; on a reply it hands back the daemon's RELEASED, NON_EXISTENT
\* or NOT_OWNER unchanged.
C7_ReleaseNameWellKnownOnly ==
    [][/\ (Invoked("release_name") /\ IsUniqueForm(call'.arg)) =>
             /\ result' = ValueError
             /\ pc' = "idle"
             /\ outbox' = outbox
             /\ nsent' = nsent
       /\ (Resumed("release_name") /\ Head(replies).kind = "method_return") =>
             /\ ~IsUniqueForm(call.arg)
             /\ Head(replies).value \in {RELEASE_NAME_REPLY_RELEASED,
                                         RELEASE_NAME_REPLY_NON_EXISTENT,
                                         RELEASE_NAME_REPLY_NOT_OWNER}
             /\ result' = [kind |-> "return", value |-> Head(replies).value]]_vars

C7_Witness ==
    /\ call.op = "release_name"
    /\ call.arg = <<":", "a", ".", "a">>
    /\ result = ValueError
    /\ nsent > 0

\* ---------------------------------------------------------------- C8
\* C8: every message on its way to the daemon is addressed to name
\* org.freedesktop.DBus, path /org/freedesktop/DBus and interface
\* org.freedesktop.DBus.
C8_FixedAddressing ==
    \A i \in 1..Len(outbox) :
       /\ outbox[i].destination = "org.freedesktop.DBus"
       /\ outbox[i].path = "/org/freedesktop/DBus"
       /\ outbox[i].interface = "org.freedesktop.DBus"

C8_Witness ==
    /\ Len(outbox) = 2
    /\ outbox[1].member = "RemoveMatch"
    /\ outbox[2].member = "GetConnectionUnixUser"
    /\ outbox[2].args[1] \in UniqueNames

\* ---------------------------------------------------------------- C9
\* C9: whatever was sent before and whatever is still pending, entering
\* one of the four match-rule wrappers queues exactly one AddMatch or
\* RemoveMatch message carrying the rule unchanged.
C9_MatchRulesForwarded ==
    [][\A op \in MatchOps : Invoked(op) =>
          /\ nsent' = nsent + 1
          /\ outbox' = Append(outbox,
                [serial |-> nsent + 1,
                 destination |-> "org.freedesktop.DBus",
                 path |-> "/org/freedesktop/DBus",
                 interface |-> "org.freedesktop.DBus",
                 member |-> MemberOf(op),
                 args |-> <<call'.arg>>])]_vars

C9_Witness ==
    /\ Len(outbox) = 2
    /\ outbox[1].member = "AddMatch"
    /\ outbox[2].member = "AddMatch"
    /\ outbox[1].args = outbox[2].args
    /\ call.op = "add_match_string"

\* --------------------------------------------------------------- C10
\* C10: a step sends at most one message; only entering a wrapper sends,
\* one message when the wrapper's validation passes and none when it
\* fails; the daemon's answers and their delivery send nothing.
C10_AtMostOneRequest ==
    [][/\ nsent' \in {nsent, nsent + 1}
       /\ nsent' = nsent + 1 =>
             /\ pc = "idle"
             /\ Len(outbox') = Len(outbox) + 1
             /\ SubSeq(outbox', 1, Len(outbox)) = outbox
             /\ PassesValidation(call')
       /\ nsent' = nsent =>
             (outbox' = outbox \/ (outbox # <<>> /\ outbox' = Tail(outbox)))
       /\ \A op \in BlockingOps \cup NonBlockingOps : Invoked(op) =>
             (nsent' = nsent + 1 <=> PassesValidation(call'))
       /\ (pc = "blocked" \/ Delivered) => nsent' = nsent]_vars

C10_Witness ==
    /\ pc = "idle"
    /\ call.op = "remove_match_string"
    /\ result.kind = "raise"
    /\ nsent = 1
    /\ outbox = <<>>
    /\ replies = <<>>
    /\ pending = {}

====
